---------------------------- MODULE Spec2Model ----------------------------
(***************************************************************************)
(* A model of steamreplay (src/src/main.rs): the two commands that read    *)
(* saved replay documents, `map-games` (map_games_master) and `to-csv`     *)
(* (convert_to_csv), the two recursive traversals they run over a JSON     *)
(* document (extract_app_ids, extract_playtime_data) and the section       *)
(* translator (convert_section_to_month).                                  *)
(*                                                                         *)
(* A Rust String is a sequence of one-character strings, so that ordering, *)
(* prefixes, splitting, parsing and formatting are computed and not        *)
(* assumed.  A serde_json Value is a record tagged by its variant; an      *)
(* Object holds its entries as a sequence of <<key, value>> pairs in the   *)
(* order Map::iter yields them.  An Option is a sequence of length 0 or 1. *)
(***************************************************************************)
EXTENDS Integers, Sequences, FiniteSets, TLC

VARIABLES
    command,        \* args[1]: "map-games" | "to-csv" | "translate"
    json_files,     \* args[2..]: sequence of [name, data]
    pc,             \* position in the running handler
    file_idx,       \* number of files read so far
    all_app_ids,    \* map_games_master: HashSet<String>
    fetched,        \* map_games_master: the identifiers looked up so far, in order
    results,        \* map_games_master: the result fetch_game_name gave for each
    game_mapping,   \* map_games_master: HashMap<String, String>
    csv_rows,       \* convert_to_csv: Vec<(app_id, playtime_seconds, year, section)>
    csv_content,    \* the text handed to fs::write
    section,        \* convert_section_to_month: its argument
    label           \* convert_section_to_month: its result

vars == <<command, json_files, pc, file_idx, all_app_ids, fetched, results,
          game_mapping, csv_rows, csv_content, section, label>>

---------------------------------------------------------------------------
(* Strings                                                                 *)

\* The characters the model uses, in ascending byte order.
Alphabet ==
    <<"\n", "\"", "+", ",", "-", ".", "/",
      "0", "1", "2", "3", "4", "5", "6", "7", "8", "9", ":", "?",
      "A", "D", "F", "J", "M", "N", "O", "S", "_",
      "a", "b", "c", "d", "e", "f", "g", "h", "i", "j", "k", "l", "m", "n",
      "o", "p", "q", "r", "s", "t", "u", "v", "w", "x", "y", "z">>

Digits == <<"0", "1", "2", "3", "4", "5", "6", "7", "8", "9">>

Ord(c) == CHOOSE i \in 1..Len(Alphabet) : Alphabet[i] = c

IsDigit(c) == \E i \in 1..Len(Digits) : Digits[i] = c

DigitValue(c) == (CHOOSE i \in 1..Len(Digits) : Digits[i] = c) - 1

Last(s) == s[Len(s)]

\* Option<T>
None == <<>>
Some(x) == <<x>>
is_some(o) == Len(o) > 0
unwrap(o) == o[1]

\* str::starts_with
starts_with(s, prefix) ==
    /\ Len(s) >= Len(prefix)
    /\ SubSeq(s, 1, Len(prefix)) = prefix

\* str::strip_prefix
strip_prefix(s, prefix) ==
    IF starts_with(s, prefix) THEN Some(SubSeq(s, Len(prefix) + 1, Len(s))) ELSE None

\* str::contains(char)
contains(s, c) == \E i \in 1..Len(s) : s[i] = c

\* str::split(char), collected: the pieces between the separators
RECURSIVE split(_, _)
split(s, c) ==
    IF ~contains(s, c) THEN <<s>>
    ELSE LET i == CHOOSE k \in 1..Len(s) :
                      s[k] = c /\ \A j \in 1..(k - 1) : s[j] # c
         IN  <<SubSeq(s, 1, i - 1)>> \o split(SubSeq(s, i + 1, Len(s)), c)

\* str::replace(&str, &str)
RECURSIVE replace(_, _, _)
replace(s, from, to) ==
    IF Len(s) = 0 THEN s
    ELSE IF starts_with(s, from)
         THEN to \o replace(SubSeq(s, Len(from) + 1, Len(s)), from, to)
         ELSE <<s[1]>> \o replace(Tail(s), from, to)

\* [String]::join(&str)
RECURSIVE join(_, _)
join(parts, sep) ==
    IF Len(parts) = 0 THEN <<>>
    ELSE IF Len(parts) = 1 THEN parts[1]
    ELSE parts[1] \o sep \o join(Tail(parts), sep)

\* u64::to_string: the decimal digits, no leading zero
RECURSIVE to_string(_)
to_string(n) ==
    IF n < 10 THEN <<Digits[n + 1]>>
    ELSE to_string(n \div 10) \o <<Digits[(n % 10) + 1]>>

\* <String as Ord>::cmp: byte-wise lexicographic
RECURSIVE cmp(_, _)
cmp(a, b) ==
    IF Len(a) = 0 /\ Len(b) = 0 THEN "Equal"
    ELSE IF Len(a) = 0 THEN "Less"
    ELSE IF Len(b) = 0 THEN "Greater"
    ELSE IF Ord(a[1]) < Ord(b[1]) THEN "Less"
    ELSE IF Ord(a[1]) > Ord(b[1]) THEN "Greater"
    ELSE cmp(Tail(a), Tail(b))

\* Ordering::then
then(first, second) == IF first = "Equal" THEN second ELSE first

K_appid == <<"a", "p", "p", "i", "d">>
K_app_id == <<"a", "p", "p", "_", "i", "d">>
K_relative_game_stats == <<"r", "e", "l", "a", "t", "i", "v", "e", "_", "g", "a", "m", "e", "_", "s", "t", "a", "t", "s">>
K_total_playtime_seconds == <<"t", "o", "t", "a", "l", "_", "p", "l", "a", "y", "t", "i", "m", "e", "_", "s", "e", "c", "o", "n", "d", "s">>
K_rtime_month == <<"r", "t", "i", "m", "e", "_", "m", "o", "n", "t", "h">>
K_games == <<"g", "a", "m", "e", "s">>
K_months == <<"m", "o", "n", "t", "h", "s">>
K_playtime_stats == <<"p", "l", "a", "y", "t", "i", "m", "e", "_", "s", "t", "a", "t", "s">>
K_url == <<"u", "r", "l">>
K_success == <<"s", "u", "c", "c", "e", "s", "s">>
K_data == <<"d", "a", "t", "a">>
K_name == <<"n", "a", "m", "e">>

S_unknown == <<"u", "n", "k", "n", "o", "w", "n">>
S_total == <<"t", "o", "t", "a", "l">>
S_month_ == <<"m", "o", "n", "t", "h", "_">>
S_playtime_stats_games == <<"p", "l", "a", "y", "t", "i", "m", "e", "_", "s", "t", "a", "t", "s", ".", "g", "a", "m", "e", "s">>
S_month_prefix == <<"p", "l", "a", "y", "t", "i", "m", "e", "_", "s", "t", "a", "t", "s", ".", "m", "o", "n", "t", "h", "s", ".", "m", "o", "n", "t", "h", "_">>
S_dot == <<".">>
S_dash == <<"-">>
S_comma == <<",">>
S_quote == <<"\"">>
S_two_quotes == <<"\"", "\"">>
S_newline == <<"\n">>
S_json_ext == <<".", "j", "s", "o", "n">>
S_playtime_header == <<"a", "p", "p", "_", "i", "d", ",", "p", "l", "a", "y", "t", "i", "m", "e", "_", "i", "n", "_", "s", "e", "c", "o", "n", "d", "s", ",", "y", "e", "a", "r", ",", "m", "o", "n", "t", "h", "\n">>
S_mapping_header == <<"a", "p", "p", "_", "i", "d", ",", "g", "a", "m", "e", "\n">>
\* usize::MAX on a 64-bit target, in decimal
S_usize_max == <<"1", "8", "4", "4", "6", "7", "4", "4", "0", "7", "3", "7", "0", "9", "5", "5", "1", "6", "1", "5">>

---------------------------------------------------------------------------
(* serde_json::Value                                                       *)

Null == [t |-> "Null"]
Bool(b) == [t |-> "Bool", b |-> b]
\* serde_json::Number is PosInt(u64), NegInt(i64) or Float(f64); a Float's
\* payload here is the value in tenths.
PosInt(n) == [t |-> "Number", n |-> [k |-> "PosInt", v |-> n]]
NegInt(n) == [t |-> "Number", n |-> [k |-> "NegInt", v |-> n]]
Float(tenths) == [t |-> "Number", n |-> [k |-> "Float", v |-> tenths]]
String(s) == [t |-> "String", s |-> s]
Array(a) == [t |-> "Array", a |-> a]
Object(m) == [t |-> "Object", m |-> m]

\* Map::get
get(map, key) ==
    IF \E i \in 1..Len(map) : map[i][1] = key
    THEN Some(map[CHOOSE i \in 1..Len(map) : map[i][1] = key][2])
    ELSE None

\* Map::contains_key
contains_key(map, key) == \E i \in 1..Len(map) : map[i][1] = key

\* Value::get(&str): None unless the value is an object holding the key
value_get(value, key) ==
    IF value.t = "Object" THEN get(value.m, key) ELSE None

\* Number::as_u64
as_u64(n) == IF n.k = "PosInt" THEN Some(n.v) ELSE None

\* Number::as_i64 (every PosInt of the model is below i64::MAX)
as_i64(n) == IF n.k = "PosInt" \/ n.k = "NegInt" THEN Some(n.v) ELSE None

\* Value::as_u64, Value::as_str, Value::as_bool
value_as_u64(value) == IF value.t = "Number" THEN as_u64(value.n) ELSE None
value_as_str(value) == IF value.t = "String" THEN Some(value.s) ELSE None
value_as_bool(value) == IF value.t = "Bool" THEN Some(value.b) ELSE None

---------------------------------------------------------------------------
(* extract_app_ids                                                         *)

\* The identifier an object contributes under `key`: main.rs 270-274, 276-280
numeric_id(map, key) ==
    LET v == get(map, key)
    IN  IF is_some(v) /\ unwrap(v).t = "Number" /\ is_some(as_u64(unwrap(v).n))
        THEN {to_string(unwrap(as_u64(unwrap(v).n)))}
        ELSE {}

\* own_app_ids with the legacy key forgotten
own_app_ids_primary_only(map) == numeric_id(map, K_appid)

\* own_app_ids looking under the legacy key only
own_app_ids_legacy_only(map) == numeric_id(map, K_app_id)

own_app_ids(map) == numeric_id(map, K_appid) \cup numeric_id(map, K_app_id)

RECURSIVE extract_app_ids_recursive(_, _)
extract_app_ids_recursive(value, app_ids) ==
    IF value.t = "Object" THEN
        LET inserted == app_ids \cup own_app_ids(value.m)
            visit[i \in 0..Len(value.m)] ==
                IF i = 0 THEN inserted
                ELSE extract_app_ids_recursive(value.m[i][2], visit[i - 1])
        IN  visit[Len(value.m)]
    ELSE IF value.t = "Array" THEN
        LET visit[i \in 0..Len(value.a)] ==
                IF i = 0 THEN app_ids
                ELSE extract_app_ids_recursive(value.a[i], visit[i - 1])
        IN  visit[Len(value.a)]
    ELSE app_ids

extract_app_ids(value) == extract_app_ids_recursive(value, {})

---------------------------------------------------------------------------
(* extract_playtime_data                                                   *)

\* chrono: DateTime::from_timestamp(ts, 0) as (year, month) in UTC.  Every
\* timestamp of the model is in chrono's range, so the unwrap_or_else
\* fallback to the epoch is never taken.
civil_year_month(timestamp) ==
    LET days == timestamp \div 86400
        z == days + 719468
        era == z \div 146097
        doe == z - era * 146097
        yoe == (doe - (doe \div 1460) + (doe \div 36524) - (doe \div 146096)) \div 365
        doy == doe - (365 * yoe + (yoe \div 4) - (yoe \div 100))
        mp == (5 * doy + 2) \div 153
        m == IF mp < 10 THEN mp + 3 ELSE mp - 9
        y == yoe + era * 400 + (IF m <= 2 THEN 1 ELSE 0)
    IN  <<y, m>>

\* "{:04}" / "{:02}": zero-padded decimal
pad(digits, width) ==
    IF Len(digits) >= width THEN digits
    ELSE [i \in 1..(width - Len(digits)) |-> "0"] \o digits

\* datetime.format("%Y-%m").to_string()
format_month_from_timestamp(timestamp) ==
    LET ym == civil_year_month(timestamp)
    IN  pad(to_string(ym[1]), 4) \o S_dash \o pad(to_string(ym[2]), 2)

\* The app_id of a candidate object: a u64 number in decimal, or a string as is
record_app_id(map) ==
    LET v == get(map, K_appid)
    IN  IF is_some(v) /\ unwrap(v).t = "Number"
        THEN (IF is_some(as_u64(unwrap(v).n))
              THEN Some(to_string(unwrap(as_u64(unwrap(v).n))))
              ELSE None)
        ELSE IF is_some(v) /\ unwrap(v).t = "String" THEN Some(unwrap(v).s)
        ELSE None

\* map.get("relative_game_stats").and_then(get "total_playtime_seconds").and_then(as_u64)
record_playtime(map) ==
    LET stats == get(map, K_relative_game_stats)
        field == IF is_some(stats)
                 THEN value_get(unwrap(stats), K_total_playtime_seconds)
                 ELSE None
    IN  IF is_some(field) THEN value_as_u64(unwrap(field)) ELSE None

\* the section a record found at `path` gets
section_of(path) == IF Len(path) = 0 THEN S_unknown ELSE join(path, S_dot)

\* own_record without the test that drops a measurement of 0
own_record_keeps_zero(map, path) ==
    LET app_id == record_app_id(map)
        playtime_seconds == record_playtime(map)
    IN  IF contains_key(map, K_appid) /\ contains_key(map, K_relative_game_stats)
           /\ is_some(app_id) /\ is_some(playtime_seconds)
        THEN <<<<unwrap(app_id), unwrap(playtime_seconds), section_of(path)>>>>
        ELSE <<>>

\* The records the object itself contributes (none or one)
own_record(map, path) ==
    LET has_appid == contains_key(map, K_appid)
        has_relative_stats == contains_key(map, K_relative_game_stats)
        app_id == record_app_id(map)
        playtime_seconds == record_playtime(map)
    IN  IF has_appid /\ has_relative_stats
           /\ is_some(app_id) /\ is_some(playtime_seconds)
           /\ unwrap(playtime_seconds) > 0
        THEN <<<<unwrap(app_id), unwrap(playtime_seconds), section_of(path)>>>>
        ELSE <<>>

\* The path the loop over an object's entries passes down for the entry `key`
new_path_for_key(map, key, path) ==
    IF key = K_games \/ key = K_months \/ key = K_playtime_stats
    THEN Append(path, key)
    ELSE IF key = K_rtime_month
            /\ (IF Len(path) = 0 THEN FALSE ELSE starts_with(Last(path), S_month_))
    THEN LET v == get(map, K_rtime_month)
         IN  IF is_some(v) /\ unwrap(v).t = "Number" /\ is_some(as_i64(unwrap(v).n))
             THEN [path EXCEPT ![Len(path)] =
                      format_month_from_timestamp(unwrap(as_i64(unwrap(v).n)))]
             ELSE path
    ELSE path

\* new_path_for_index numbering the elements of every array
new_path_for_any_array(index, path) == Append(path, S_month_ \o to_string(index))

\* The path the loop over an array's elements passes down for element `index`
new_path_for_index(index, path) ==
    IF Len(path) > 0 /\ Last(path) = K_months
    THEN Append(path, S_month_ \o to_string(index))
    ELSE path

RECURSIVE extract_playtime_recursive(_, _, _)
extract_playtime_recursive(value, playtime_data, path) ==
    IF value.t = "Object" THEN
        LET map == value.m
            pushed == playtime_data \o own_record(map, path)
            visit[i \in 0..Len(map)] ==
                IF i = 0 THEN pushed
                ELSE extract_playtime_recursive(
                         map[i][2], visit[i - 1],
                         new_path_for_key(map, map[i][1], path))
        IN  visit[Len(map)]
    ELSE IF value.t = "Array" THEN
        LET arr == value.a
            visit[i \in 0..Len(arr)] ==
                IF i = 0 THEN playtime_data
                ELSE extract_playtime_recursive(
                         arr[i], visit[i - 1], new_path_for_index(i - 1, path))
        IN  visit[Len(arr)]
    ELSE playtime_data

extract_playtime_data(value) == extract_playtime_recursive(value, <<>>, <<>>)

---------------------------------------------------------------------------
(* convert_section_to_month                                                *)

months ==
    << <<"J", "a", "n", "u", "a", "r", "y">>, <<"F", "e", "b", "r", "u", "a", "r", "y">>, <<"M", "a", "r", "c", "h">>, <<"A", "p", "r", "i", "l">>, <<"M", "a", "y">>, <<"J", "u", "n", "e">>,
       <<"J", "u", "l", "y">>, <<"A", "u", "g", "u", "s", "t">>, <<"S", "e", "p", "t", "e", "m", "b", "e", "r">>, <<"O", "c", "t", "o", "b", "e", "r">>, <<"N", "o", "v", "e", "m", "b", "e", "r">>, <<"D", "e", "c", "e", "m", "b", "e", "r">> >>

RECURSIVE strip_leading_zeros(_)
strip_leading_zeros(digits) ==
    IF Len(digits) > 1 /\ digits[1] = "0" THEN strip_leading_zeros(Tail(digits))
    ELSE digits

\* Whether a decimal numeral without leading zeros fits a usize
fits_usize(digits) ==
    \/ Len(digits) < Len(S_usize_max)
    \/ /\ Len(digits) = Len(S_usize_max)
       /\ cmp(digits, S_usize_max) # "Greater"

\* str::parse::<usize>: an optional '+', then one or more decimal digits whose
\* value fits; anything else is an Err.  A usize is held as its decimal
\* numeral without leading zeros, which is what "{}" prints.
parse_usize(s) ==
    LET digits == IF Len(s) > 0 /\ s[1] = "+" THEN Tail(s) ELSE s
    IN  IF /\ Len(digits) > 0
           /\ \A i \in 1..Len(digits) : IsDigit(digits[i])
           /\ fits_usize(strip_leading_zeros(digits))
        THEN Some(strip_leading_zeros(digits))
        ELSE None

\* month_index < 12, on a usize held as its numeral
below_twelve(numeral) ==
    \/ Len(numeral) = 1
    \/ Len(numeral) = 2 /\ numeral[1] = "1" /\ DigitValue(numeral[2]) < 2

small_value(numeral) ==
    IF Len(numeral) = 1 THEN DigitValue(numeral[1])
    ELSE 10 * DigitValue(numeral[1]) + DigitValue(numeral[2])

\* get_month_name whose fallback is the bare index
get_month_name_bare_fallback(month_index) ==
    IF below_twelve(month_index)
    THEN months[small_value(month_index) + 1]
    ELSE month_index

get_month_name(month_index) ==
    IF below_twelve(month_index)
    THEN months[small_value(month_index) + 1]
    ELSE S_month_ \o month_index

convert_section_to_month(s) ==
    IF s = S_playtime_stats_games THEN S_total
    ELSE LET month_part == strip_prefix(s, S_month_prefix)
             month_num == IF is_some(month_part) THEN parse_usize(unwrap(month_part))
                          ELSE None
         IN  IF is_some(month_num) THEN get_month_name(unwrap(month_num))
             ELSE s

---------------------------------------------------------------------------
(* extract_year_from_data                                                  *)

\* url.split('/').nth_back(0)?, then .split('?').next()
extract_year(url) == Some(split(Last(split(url, "/")), "?")[1])

all_ascii_digits(s) == \A i \in 1..Len(s) : IsDigit(s[i])

extract_year_from_data(data, filename) ==
    LET url == value_get(data, K_url)
        url_str == IF is_some(url) THEN value_as_str(unwrap(url)) ELSE None
        parts == split(filename, "_")
        four == {i \in 1..Len(parts) : Len(parts[i]) = 4 /\ all_ascii_digits(parts[i])}
    IN  IF is_some(url_str) /\ is_some(extract_year(unwrap(url_str)))
        THEN unwrap(extract_year(unwrap(url_str)))
        ELSE IF four # {}
        THEN replace(parts[CHOOSE i \in four : \A j \in four : i <= j],
                     S_json_ext, <<>>)
        ELSE S_unknown

---------------------------------------------------------------------------
(* convert_to_csv                                                          *)

\* row_cmp on the translated label instead of the raw section
row_cmp_by_label(a, b) ==
    then(then(cmp(a[3], b[3]), cmp(a[1], b[1])),
         cmp(convert_section_to_month(a[4]), convert_section_to_month(b[4])))

\* a.2.cmp(&b.2).then(a.0.cmp(&b.0)).then(a.3.cmp(&b.3))
row_cmp(a, b) == then(then(cmp(a[3], b[3]), cmp(a[1], b[1])), cmp(a[4], b[4]))

\* Vec::sort_by is a stable sort: an element goes after every element that
\* does not compare Greater than it.
RECURSIVE insert_row(_, _)
insert_row(sorted, row) ==
    IF Len(sorted) = 0 THEN <<row>>
    ELSE IF row_cmp(Last(sorted), row) = "Greater"
         THEN Append(insert_row(SubSeq(sorted, 1, Len(sorted) - 1), row), Last(sorted))
         ELSE Append(sorted, row)

sort_rows(rows) ==
    LET placed[i \in 0..Len(rows)] ==
            IF i = 0 THEN <<>> ELSE insert_row(placed[i - 1], rows[i])
    IN  placed[Len(rows)]

\* format!("{},{},{},{}\n", app_id, playtime_seconds, year, month)
format_row(row) ==
    row[1] \o S_comma \o to_string(row[2]) \o S_comma \o row[3] \o S_comma
        \o convert_section_to_month(row[4]) \o S_newline

render_rows(rows) ==
    LET written[i \in 0..Len(rows)] ==
            IF i = 0 THEN S_playtime_header
            ELSE written[i - 1] \o format_row(rows[i])
    IN  written[Len(rows)]

\* the rows one file adds: its records, each with the file's year
file_rows(file) ==
    LET year == extract_year_from_data(file.data, file.name)
        playtime_data == extract_playtime_data(file.data)
    IN  [i \in 1..Len(playtime_data) |->
            <<playtime_data[i][1], playtime_data[i][2], year, playtime_data[i][3]>>]

---------------------------------------------------------------------------
(* map_games_master                                                        *)

Ok(name) == [kind |-> "Ok", name |-> name]
Err == [kind |-> "Err", name |-> None]

\* fetch_game_name, given what the HTTP request came back with
fetch_game_name(app_id, response) ==
    IF response.kind # "Json" THEN Err
    ELSE LET app_data == value_get(response.body, app_id)
             success == IF is_some(app_data)
                        THEN value_get(unwrap(app_data), K_success) ELSE None
             flag == IF is_some(success) THEN value_as_bool(unwrap(success)) ELSE None
             data == IF is_some(app_data)
                     THEN value_get(unwrap(app_data), K_data) ELSE None
             name == IF is_some(data) THEN value_get(unwrap(data), K_name) ELSE None
             name_str == IF is_some(name) THEN value_as_str(unwrap(name)) ELSE None
         IN  IF is_some(flag) /\ unwrap(flag) /\ is_some(name_str)
             THEN Ok(Some(unwrap(name_str)))
             ELSE Ok(None)

\* HashMap::insert
insert(map, key, value) ==
    [k \in (DOMAIN map) \cup {key} |-> IF k = key THEN value ELSE map[k]]

\* after_lookup entering an empty name for an identifier that was not found
after_lookup_placeholder(mapping, app_id, result) ==
    IF result.kind = "Ok"
    THEN insert(mapping, app_id, IF is_some(result.name) THEN unwrap(result.name) ELSE <<>>)
    ELSE mapping

\* the match on the lookup's result: only Ok(Some(name)) touches the table
after_lookup(mapping, app_id, result) ==
    IF result.kind = "Ok" /\ is_some(result.name)
    THEN insert(mapping, app_id, unwrap(result.name))
    ELSE mapping

\* the table's keys in ascending order (sort_by_key on the collected entries)
RECURSIVE sorted_ids(_)
sorted_ids(ids) ==
    IF ids = {} THEN <<>>
    ELSE LET least == CHOOSE x \in ids : \A y \in ids : cmp(x, y) # "Greater"
         IN  <<least>> \o sorted_ids(ids \ {least})

escaped_name(game_name) ==
    IF contains(game_name, ",") \/ contains(game_name, "\"")
    THEN S_quote \o replace(game_name, S_quote, S_two_quotes) \o S_quote
    ELSE game_name

mapping_csv(mapping) ==
    LET ids == sorted_ids(DOMAIN mapping)
        written[i \in 0..Len(ids)] ==
            IF i = 0 THEN S_mapping_header
            ELSE written[i - 1] \o ids[i] \o S_comma
                     \o escaped_name(mapping[ids[i]]) \o S_newline
    IN  written[Len(ids)]

---------------------------------------------------------------------------
(* Inputs                                                                  *)

\* depth of wrapping around a game object in the structural documents
MaxWrap == 3
\* depth of wrapping in the documents given to map-games
MaxMapWrap == 2
\* elements of a playtime_stats.months array
MaxMonths == 2
\* files on one to-csv command line
MaxFiles == 3
\* characters after the month prefix in a section given to the translator
MaxSuffixLen == 3

K_a == <<"a">>
K_game_summary == <<"g", "a", "m", "e", "_", "s", "u", "m", "m", "a", "r", "y">>

Entry(key, opt) == IF is_some(opt) THEN << <<key, unwrap(opt)>> >> ELSE <<>>

AppIdChoices ==
    { None, Some(PosInt(42)), Some(PosInt(7)), Some(NegInt(0 - 3)), Some(Float(15)),
      Some(String(<<"4", "2">>)), Some(String(<<"1", ",", "2">>)), Some(Null) }

PlaytimeChoices ==
    { PosInt(0), PosInt(1), PosInt(7500), NegInt(0 - 5), Float(15), String(<<"5">>) }

StatsChoices ==
    { None, Some(Object(<<>>)), Some(PosInt(5)) }
        \cup { Some(Object(<< <<K_total_playtime_seconds, v>> >>)) : v \in PlaytimeChoices }

GameObject(appid, stats) ==
    Object(Entry(K_appid, appid) \o Entry(K_relative_game_stats, stats))

Played(appid, seconds) ==
    GameObject(Some(appid),
               Some(Object(<< <<K_total_playtime_seconds, PosInt(seconds)>> >>)))

\* every shape of candidate object
Leaves == { GameObject(a, s) : a \in AppIdChoices, s \in StatsChoices }

\* objects carrying the legacy identifier key
LegacyLeaves ==
    { Object(<< <<K_app_id, PosInt(10)>> >>),
      Object(<< <<K_app_id, String(<<"1", "0">>)>> >>),
      Object(<< <<K_app_id, PosInt(10)>>, <<K_appid, PosInt(42)>> >>),
      Object(<< <<K_appid, String(<<"9">>)>>, <<K_app_id, PosInt(7)>>,
                <<K_relative_game_stats,
                  Object(<< <<K_total_playtime_seconds, PosInt(1)>> >>)>> >>) }

CoreLeaves ==
    { Played(PosInt(42), 7500), Played(String(<<"1", ",", "2">>), 1), Played(NegInt(0 - 3), 1) }

\* 2024-03-01, 2023-01-15 and 2024-12-31T23:59:59, in seconds since the epoch
Timestamps == { 1709251200, 1673740800, 1735689599 }

\* one more level around a document
Wraps(d) ==
    { Object(<< <<k, d>> >>) : k \in {K_a, K_games, K_months, K_playtime_stats} }
        \cup { Array(<<Null, d>>),
               Object(<< <<K_rtime_month, PosInt(1709251200)>>, <<K_a, d>> >>),
               Object(<< <<K_appid, PosInt(7)>>,
                         <<K_relative_game_stats,
                           Object(<< <<K_total_playtime_seconds, PosInt(2)>>,
                                     <<K_a, d>> >>)>> >>),
               Object(<< <<K_games, Array(<<Played(PosInt(7), 2)>>)>>, <<K_a, d>> >>) }

RECURSIVE Wrapped(_)
Wrapped(n) ==
    IF n = 0 THEN CoreLeaves
    ELSE Wrapped(n - 1) \cup UNION { Wraps(d) : d \in Wrapped(n - 1) }

MapWraps(d) ==
    { Object(<< <<K_a, d>> >>),
      Array(<<Null, d>>),
      Object(<< <<K_a, d>>, <<K_app_id, PosInt(10)>> >>),
      Object(<< <<K_appid, PosInt(7)>>,
                <<K_relative_game_stats,
                  Object(<< <<K_total_playtime_seconds, PosInt(2)>>,
                            <<K_a, d>> >>)>> >>) }

RECURSIVE MapWrapped(_)
MapWrapped(n) ==
    IF n = 0 THEN LegacyLeaves \cup { GameObject(a, Some(PosInt(5))) : a \in AppIdChoices }
    ELSE MapWrapped(n - 1) \cup UNION { MapWraps(d) : d \in MapWrapped(n - 1) }

\* one element of a months array: a timestamp or none, and a game in the
\* element itself, under an unlisted key, or under "games"
MonthElements ==
    LET game == Played(PosInt(42), 7500)
        stamps == { None } \cup { Some(PosInt(t)) : t \in Timestamps }
    IN  UNION { { Object(Entry(K_rtime_month, r) \o game.m),
                  Object(Entry(K_rtime_month, r)
                             \o << <<K_game_summary, Array(<<game>>)>> >>),
                  Object(<< <<K_game_summary, Array(<<game>>)>> >>
                             \o Entry(K_rtime_month, r)) } : r \in stamps }

RECURSIVE Tuples(_, _)
Tuples(S, n) ==
    IF n = 0 THEN { <<>> }
    ELSE Tuples(S, n - 1)
             \cup { Append(t, x) : t \in { u \in Tuples(S, n - 1) : Len(u) = n - 1 }, x \in S }

MonthDocs ==
    { Object(<< <<K_playtime_stats,
                  Object(<< <<K_months, Array(elements)>> >>)>> >>) :
          elements \in Tuples(MonthElements, MaxMonths) }

Urls == { <<"h", "t", "t", "p", "s", ":", "/", "/", "s", "/", "r", "e", "p", "l", "a", "y", "/", "1", "/", "2", "0", "2", "4", "?", "l", "=", "e", "n">>, <<"h", "t", "t", "p", "s", ":", "/", "/", "s", "/", "r", "e", "p", "l", "a", "y", "/", "1", "/", "2", "0", "2", "3">>, <<"s", "/", "2", "0", "2", "4", ",", "1">> }

Filenames == { <<"s", "t", "e", "a", "m", "_", "r", "e", "p", "l", "a", "y", "_", "1", "_", "2", "0", "2", "4", ".", "j", "s", "o", "n">>, <<"r", "_", "2", "0", "2", "2", "_", "1", ".", "j", "s", "o", "n">> }

\* the documents as `scrape` saves them: a url beside the data
Saved(url, body) == Object(<< <<K_url, String(url)>>, <<K_data, body>> >>)

\* small saved documents whose rows differ in year, identifier, section and value
SortDocs ==
    { Saved(u, Object(<< <<K_playtime_stats, Object(<< <<K_games, Array(<<g>>)>> >>)>> >>)) :
          u \in { <<"h", "t", "t", "p", "s", ":", "/", "/", "s", "/", "r", "e", "p", "l", "a", "y", "/", "1", "/", "2", "0", "2", "4", "?", "l", "=", "e", "n">>, <<"h", "t", "t", "p", "s", ":", "/", "/", "s", "/", "r", "e", "p", "l", "a", "y", "/", "1", "/", "2", "0", "2", "3">> },
          g \in { Played(PosInt(10), 1), Played(PosInt(9), 2) } }
        \cup
    { Saved(<<"h", "t", "t", "p", "s", ":", "/", "/", "s", "/", "r", "e", "p", "l", "a", "y", "/", "1", "/", "2", "0", "2", "4", "?", "l", "=", "e", "n">>,
            Object(<< <<K_playtime_stats,
                Object(<< <<K_months, Array(<<Played(PosInt(9), 2)>>)>> >>)>> >>)),
      Saved(<<"h", "t", "t", "p", "s", ":", "/", "/", "s", "/", "r", "e", "p", "l", "a", "y", "/", "1", "/", "2", "0", "2", "3">>,
            Object(<< <<K_playtime_stats,
                Object(<< <<K_months,
                    Array(<<Array(<<Played(PosInt(9), 3), Played(PosInt(9), 1)>>),
                            Played(PosInt(9), 2), Played(PosInt(9), 4), Null, Null,
                            Null, Null, Null, Null, Null, Played(PosInt(9), 2)>>)>>,
                          <<K_games, Array(<<Played(PosInt(9), 1)>>)>> >>)>> >>)) }

Invalid == [t |-> "Invalid"]

File(name, data) == [name |-> name, data |-> data]

\* to-csv command lines
CsvInputs ==
    { <<File(n, d)>> : n \in Filenames, d \in Leaves }
        \cup { <<File(<<"s", "t", "e", "a", "m", "_", "r", "e", "p", "l", "a", "y", "_", "1", "_", "2", "0", "2", "4", ".", "j", "s", "o", "n">>, Saved(u, d))>> : u \in Urls, d \in Leaves }
        \cup { <<File(<<"s", "t", "e", "a", "m", "_", "r", "e", "p", "l", "a", "y", "_", "1", "_", "2", "0", "2", "4", ".", "j", "s", "o", "n">>, d)>> :
                   d \in Wrapped(MaxWrap) \cup MonthDocs \cup {Invalid} }
        \cup { [i \in 1..Len(t) |-> File(<<"s", "t", "e", "a", "m", "_", "r", "e", "p", "l", "a", "y", "_", "1", "_", "2", "0", "2", "4", ".", "j", "s", "o", "n">>, t[i])] :
                   t \in Tuples(SortDocs, MaxFiles) \ { <<>> } }
        \cup { <<File(<<"s", "t", "e", "a", "m", "_", "r", "e", "p", "l", "a", "y", "_", "1", "_", "2", "0", "2", "4", ".", "j", "s", "o", "n">>, d), File(<<"r", "_", "2", "0", "2", "2", "_", "1", ".", "j", "s", "o", "n">>, Invalid)>> :
                   d \in SortDocs }

\* map-games command lines
MapInputs ==
    { <<File(<<"s", "t", "e", "a", "m", "_", "r", "e", "p", "l", "a", "y", "_", "1", "_", "2", "0", "2", "4", ".", "j", "s", "o", "n">>, d)>> : d \in MapWrapped(MaxMapWrap) \cup {Invalid} }
        \cup { <<File(<<"s", "t", "e", "a", "m", "_", "r", "e", "p", "l", "a", "y", "_", "1", "_", "2", "0", "2", "4", ".", "j", "s", "o", "n">>, d), File(<<"r", "_", "2", "0", "2", "2", "_", "1", ".", "j", "s", "o", "n">>, e)>> :
                   d \in LegacyLeaves, e \in LegacyLeaves \cup {Invalid} }

\* map-games command lines of two saved documents, for the enrichment loop
EnrichInputs ==
    { <<File(<<"s", "t", "e", "a", "m", "_", "r", "e", "p", "l", "a", "y", "_", "1", "_", "2", "0", "2", "4", ".", "j", "s", "o", "n">>, d), File(<<"r", "_", "2", "0", "2", "2", "_", "1", ".", "j", "s", "o", "n">>, e)>> :
          d \in { Object(<< <<K_app_id, PosInt(10)>>, <<K_appid, PosInt(42)>> >>),
                   Played(PosInt(42), 7500), Played(String(<<"4", "2">>), 1) },
          e \in { Invalid, Null, Played(PosInt(42), 1),
                   Array(<<Played(PosInt(7), 1), Object(<< <<K_app_id, Float(15)>> >>)>>) } }

\* what the request of fetch_game_name can come back with, for one identifier
Responses(app_id) ==
    { [kind |-> "NetworkError", body |-> Null],
      [kind |-> "NotJson", body |-> Null],
      [kind |-> "Json", body |-> Object(<<>>)],
      [kind |-> "Json", body |-> Object(<< <<app_id,
            Object(<< <<K_success, Bool(FALSE)>> >>)>> >>)],
      [kind |-> "Json", body |-> Object(<< <<app_id,
            Object(<< <<K_success, Bool(TRUE)>>, <<K_data, Object(<<>>)>> >>)>> >>)],
      [kind |-> "Json", body |-> Object(<< <<app_id,
            Object(<< <<K_success, Bool(TRUE)>>,
                      <<K_data, Object(<< <<K_name, String(<<"P", "o", "r", "t", "a", "l", " ", "2">>)>> >>)>> >>)>> >>)],
      [kind |-> "Json", body |-> Object(<< <<app_id,
            Object(<< <<K_success, Bool(TRUE)>>,
                      <<K_data, Object(<< <<K_name, String(<<"H", "a", "l", "f", ",", " ", "\"", "L", "i", "f", "e", "\"">>)>> >>)>> >>)>> >>)] }

SuffixChars == { "0", "1", "2", "9", "+", "-", "x" }

\* sections given to the translator: the month prefix followed by a short
\* suffix, numerals around usize::MAX, and sections of other shapes
SectionInputs ==
    { S_month_prefix \o t : t \in Tuples(SuffixChars, MaxSuffixLen) }
        \cup { S_month_prefix \o t :
                   t \in { S_usize_max, <<"1", "8", "4", "4", "6", "7", "4", "4", "0", "7", "3", "7", "0", "9", "5", "5", "1", "6", "1", "6">>, <<"0", "1", "8", "4", "4", "6", "7", "4", "4", "0", "7", "3", "7", "0", "9", "5", "5", "1", "6", "1", "5">>,
                           <<"9", "9", "9", "9", "9", "9", "9", "9", "9", "9", "9", "9", "9", "9", "9", "9", "9", "9", "9", "9">>, <<"+", "0", "0", "7">>, <<"0", "0", "1", "1">>, <<"0", "0", "1", "2">> } }
        \cup { S_playtime_stats_games, S_unknown, <<>>, K_playtime_stats, K_games,
               <<"p", "l", "a", "y", "t", "i", "m", "e", "_", "s", "t", "a", "t", "s", ".", "m", "o", "n", "t", "h", "s">>, <<"p", "l", "a", "y", "t", "i", "m", "e", "_", "s", "t", "a", "t", "s", ".", "g", "a", "m", "e", "s", ".", "m", "o", "n", "t", "h", "_", "1">>,
               <<"p", "l", "a", "y", "t", "i", "m", "e", "_", "s", "t", "a", "t", "s", ".", "m", "o", "n", "t", "h", "s", ".", "2", "0", "2", "4", "-", "0", "3">>, <<"m", "o", "n", "t", "h", "_", "3">>,
               <<"p", "l", "a", "y", "t", "i", "m", "e", "_", "s", "t", "a", "t", "s", ".", "m", "o", "n", "t", "h", "s", ".", "m", "o", "n", "t", "h", "_", "0", ".", "g", "a", "m", "e", "s">> }

---------------------------------------------------------------------------
(* The commands                                                            *)

Range(s) == { s[i] : i \in 1..Len(s) }

Idle ==
    /\ file_idx = 0 /\ all_app_ids = {} /\ fetched = <<>> /\ results = <<>>
    /\ game_mapping = <<>> /\ csv_rows = <<>> /\ csv_content = <<>>
    /\ section = <<>> /\ label = <<>>

InitCsv == command = "to-csv" /\ json_files \in CsvInputs /\ pc = "read" /\ Idle

InitMap == command = "map-games" /\ json_files \in MapInputs /\ pc = "read" /\ Idle

InitEnrich == command = "map-games" /\ json_files \in EnrichInputs /\ pc = "read" /\ Idle

InitTranslate ==
    /\ command = "translate" /\ json_files = <<>> /\ pc = "call"
    /\ file_idx = 0 /\ all_app_ids = {} /\ fetched = <<>> /\ results = <<>>
    /\ game_mapping = <<>> /\ csv_rows = <<>> /\ csv_content = <<>>
    /\ section \in SectionInputs /\ label = <<>>

\* convert_to_csv, one turn of the loop over the files
CsvReadFile ==
    /\ command = "to-csv" /\ pc = "read" /\ file_idx < Len(json_files)
    /\ LET file == json_files[file_idx + 1]
       IN  IF file.data.t = "Invalid"
           THEN /\ pc' = "failed"
                /\ UNCHANGED <<file_idx, csv_rows>>
           ELSE /\ csv_rows' = csv_rows \o file_rows(file)
                /\ file_idx' = file_idx + 1
                /\ pc' = "read"
    /\ UNCHANGED <<command, json_files, all_app_ids, fetched, results, game_mapping,
                   csv_content, section, label>>

\* convert_to_csv after the loop: sort, render, write
CsvWrite ==
    /\ command = "to-csv" /\ pc = "read" /\ file_idx = Len(json_files)
    /\ csv_rows' = sort_rows(csv_rows)
    /\ csv_content' = render_rows(csv_rows')
    /\ \E written \in BOOLEAN : pc' = IF written THEN "done" ELSE "failed"
    /\ UNCHANGED <<command, json_files, file_idx, all_app_ids, fetched, results,
                   game_mapping, section, label>>

\* map_games_master, one turn of the loop over the files
MapReadFile ==
    /\ command = "map-games" /\ pc = "read" /\ file_idx < Len(json_files)
    /\ LET file == json_files[file_idx + 1]
       IN  IF file.data.t = "Invalid"
           THEN /\ pc' = "failed"
                /\ UNCHANGED <<file_idx, all_app_ids>>
           ELSE /\ all_app_ids' = all_app_ids \cup extract_app_ids(file.data)
                /\ file_idx' = file_idx + 1
                /\ pc' = IF file_idx' = Len(json_files) THEN "fetch" ELSE "read"
    /\ UNCHANGED <<command, json_files, fetched, results, game_mapping, csv_rows,
                   csv_content, section, label>>

\* map_games_master, one turn of the loop over all_app_ids: the set's
\* iterator yields each element once, in an order the program does not fix
MapFetch ==
    /\ command = "map-games" /\ pc = "fetch"
    /\ \E app_id \in all_app_ids \ Range(fetched) :
         \E response \in Responses(app_id) :
           LET result == fetch_game_name(app_id, response)
           IN  /\ game_mapping' = after_lookup(game_mapping, app_id, result)
               /\ fetched' = Append(fetched, app_id)
               /\ results' = Append(results, result)
    /\ UNCHANGED <<command, json_files, pc, file_idx, all_app_ids, csv_rows,
                   csv_content, section, label>>

\* map_games_master after the loop: render the table, write it
MapWrite ==
    /\ command = "map-games" /\ pc = "fetch"
    /\ all_app_ids \ Range(fetched) = {}
    /\ csv_content' = mapping_csv(game_mapping)
    /\ \E written \in BOOLEAN : pc' = IF written THEN "done" ELSE "failed"
    /\ UNCHANGED <<command, json_files, file_idx, all_app_ids, fetched, results,
                   game_mapping, csv_rows, section, label>>

\* one call of convert_section_to_month
Translate ==
    /\ command = "translate" /\ pc = "call"
    /\ label' = convert_section_to_month(section)
    /\ pc' = "done"
    /\ UNCHANGED <<command, json_files, file_idx, all_app_ids, fetched, results,
                   game_mapping, csv_rows, csv_content, section>>

NextCsv == CsvReadFile \/ CsvWrite
NextMap == MapReadFile \/ MapFetch \/ MapWrite
NextTranslate == Translate

SpecCsv == InitCsv /\ [][NextCsv]_vars
SpecMap == InitMap /\ [][NextMap]_vars
\* the loop goes on as long as the program runs and every request returns
FairSpecMap == InitEnrich /\ [][NextMap]_vars /\ WF_vars(NextMap)
SpecTranslate == InitTranslate /\ [][NextTranslate]_vars

Init == InitCsv \/ InitMap \/ InitEnrich \/ InitTranslate
Next == NextCsv \/ NextMap \/ NextTranslate
Spec == Init /\ [][Next]_vars

---------------------------------------------------------------------------
(* What the properties are stated with                                      *)
(*                                                                         *)
(* A node of a document is named by its address: the steps from the root,  *)
(* each an object key (idx < 0) or an array index.  What a traversal is    *)
(* expected to emit is stated per address, and compared with what the      *)
(* traversal of the model emitted.                                         *)

KeyStep(key) == [key |-> key, idx |-> 0 - 1]
IndexStep(i) == [key |-> <<>>, idx |-> i]

RECURSIVE Addresses(_)
Addresses(value) ==
    { <<>> } \cup
    (IF value.t = "Object"
     THEN UNION { { <<KeyStep(value.m[i][1])>> \o a : a \in Addresses(value.m[i][2]) } :
                      i \in 1..Len(value.m) }
     ELSE IF value.t = "Array"
     THEN UNION { { <<IndexStep(i - 1)>> \o a : a \in Addresses(value.a[i]) } :
                      i \in 1..Len(value.a) }
     ELSE {})

RECURSIVE NodeAt(_, _)
NodeAt(value, addr) ==
    IF Len(addr) = 0 THEN value
    ELSE IF addr[1].idx >= 0 THEN NodeAt(value.a[addr[1].idx + 1], Tail(addr))
    ELSE NodeAt((CHOOSE e \in Range(value.m) : e[1] = addr[1].key)[2], Tail(addr))

HasEntry(value, key) == value.t = "Object" /\ \E e \in Range(value.m) : e[1] = key

EntryOf(value, key) == (CHOOSE e \in Range(value.m) : e[1] = key)[2]

\* a non-negative integer below 100 in decimal
DecimalOf(n) ==
    IF n < 10 THEN <<Digits[n + 1]>> ELSE <<Digits[(n \div 10) + 1], Digits[(n % 10) + 1]>>

IsUnsigned(value) == value.t = "Number" /\ value.n.k = "PosInt"

Count(seq, x) == Cardinality({ i \in 1..Len(seq) : seq[i] = x })

\* a sequence holds exactly the values `item` gives over `things`, each as
\* often as it is given
SameBag(seq, things, item(_)) ==
    /\ Len(seq) = Cardinality(things)
    /\ \A t \in things : Count(seq, item(t)) = Cardinality({ u \in things : item(u) = item(t) })

\* the files of the command line with the addresses of their nodes
FileNodes ==
    UNION { { <<i, a>> : a \in Addresses(json_files[i].data) } :
                i \in { j \in 1..Len(json_files) : json_files[j].data.t # "Invalid" } }

NodeOf(fa) == NodeAt(json_files[fa[1]].data, fa[2])

\* the positive measurement of a node, 0 when it has none
MeasurementOf(node) ==
    IF /\ HasEntry(node, K_relative_game_stats)
       /\ HasEntry(EntryOf(node, K_relative_game_stats), K_total_playtime_seconds)
       /\ IsUnsigned(EntryOf(EntryOf(node, K_relative_game_stats), K_total_playtime_seconds))
    THEN EntryOf(EntryOf(node, K_relative_game_stats), K_total_playtime_seconds).n.v
    ELSE 0

\* a node that yields a record: an identifier that is an unsigned integer or
\* a string, and a positive measurement
Yields(node) ==
    /\ HasEntry(node, K_appid)
    /\ IsUnsigned(EntryOf(node, K_appid)) \/ EntryOf(node, K_appid).t = "String"
    /\ MeasurementOf(node) > 0

\* the same with any number as identifier
YieldsAnyNumber(node) ==
    /\ HasEntry(node, K_appid)
    /\ EntryOf(node, K_appid).t \in {"Number", "String"}
    /\ MeasurementOf(node) > 0

IdentifierOf(node) ==
    IF EntryOf(node, K_appid).t = "String" THEN EntryOf(node, K_appid).s
    ELSE DecimalOf(EntryOf(node, K_appid).n.v)

\* all files read, none failed: csv_rows holds what the traversals emitted
AllRowsCollected ==
    command = "to-csv" /\ file_idx = Len(json_files)

IdAndValue(row) == <<row[1], row[2]>>

C2_Expected(fa) == <<IdentifierOf(NodeOf(fa)), MeasurementOf(NodeOf(fa))>>

\* C2 (as amended): the traversal emits exactly one record per object node, at
\* any depth and also inside another such node, whose 'appid' is an unsigned
\* integer or a string and whose relative_game_stats.total_playtime_seconds is
\* an unsigned integer above 0, with that identifier and that value, and no
\* other record; every emitted measurement is above 0.
C2_OneRecordPerMatch ==
    AllRowsCollected =>
        /\ SameBag([i \in 1..Len(csv_rows) |-> IdAndValue(csv_rows[i])],
                   { fa \in FileNodes : Yields(NodeOf(fa)) }, C2_Expected)
        /\ \A i \in 1..Len(csv_rows) : csv_rows[i][2] > 0

\* C2 as claimed: one record per node whose 'appid' is any number or a string.
C2_AnyNumberIdentifier ==
    AllRowsCollected =>
        Len(csv_rows) = Cardinality({ fa \in FileNodes : YieldsAnyNumber(NodeOf(fa)) })

IsPrefix(a, b) == Len(a) <= Len(b) /\ SubSeq(b, 1, Len(a)) = a

\* two records from one file, one from a node inside the node of the other
C2_Witness ==
    /\ AllRowsCollected /\ pc = "read" /\ Len(csv_rows) = 2
    /\ \E fa \in FileNodes, fb \in FileNodes :
         /\ fa[1] = fb[1] /\ fa[2] # fb[2] /\ IsPrefix(fa[2], fb[2])
         /\ Yields(NodeOf(fa)) /\ Yields(NodeOf(fb))

\* the segments an address contributes, by the rule of the specification: a key
\* contributes itself iff it is games, months or playtime_stats; an index i
\* contributes month_i iff the segments so far end with months.  With
\* `resolve`, an object met on the way that holds a numeric rtime_month while
\* the segments end with a month_ placeholder has the placeholder overwritten
\* by `stamp` of that timestamp before the step into its child.
SegmentsOf(doc, addr, resolve, stamp(_)) ==
    LET seg[i \in 0..Len(addr)] ==
            IF i = 0 THEN <<>>
            ELSE LET node == NodeAt(doc, SubSeq(addr, 1, i - 1))
                     before == seg[i - 1]
                     here == IF /\ resolve
                                /\ Len(before) > 0
                                /\ IsPrefix(S_month_, before[Len(before)])
                                /\ HasEntry(node, K_rtime_month)
                                /\ EntryOf(node, K_rtime_month).t = "Number"
                                /\ EntryOf(node, K_rtime_month).n.k # "Float"
                             THEN SubSeq(before, 1, Len(before) - 1)
                                      \o <<stamp(EntryOf(node, K_rtime_month).n.v)>>
                             ELSE before
                     step == addr[i]
                 IN  IF step.idx < 0
                     THEN (IF step.key \in {K_games, K_months, K_playtime_stats}
                           THEN here \o <<step.key>> ELSE here)
                     ELSE (IF Len(here) > 0 /\ here[Len(here)] = K_months
                           THEN here \o <<S_month_ \o DecimalOf(step.idx)>> ELSE here)
    IN  seg[Len(addr)]

RECURSIVE Dotted(_)
Dotted(segments) ==
    IF Len(segments) = 1 THEN segments[1]
    ELSE segments[1] \o <<".">> \o Dotted(Tail(segments))

SectionOfSegments(segments) == IF segments = <<>> THEN S_unknown ELSE Dotted(segments)

\* the year-month of the timestamps the inputs use
StampOf(timestamp) ==
    CASE timestamp = 1709251200 -> <<"2", "0", "2", "4", "-", "0", "3">>
      [] timestamp = 1673740800 -> <<"2", "0", "2", "3", "-", "0", "1">>
      [] timestamp = 1735689599 -> <<"2", "0", "2", "4", "-", "1", "2">>

\* the calendar month (1..12) of the timestamps the inputs use
CalendarMonthOf(timestamp) ==
    CASE timestamp = 1709251200 -> 3
      [] timestamp = 1673740800 -> 1
      [] timestamp = 1735689599 -> 12

MonthNames ==
    << <<"J", "a", "n", "u", "a", "r", "y">>, <<"F", "e", "b", "r", "u", "a", "r", "y">>, <<"M", "a", "r", "c", "h">>, <<"A", "p", "r", "i", "l">>, <<"M", "a", "y">>, <<"J", "u", "n", "e">>,
       <<"J", "u", "l", "y">>, <<"A", "u", "g", "u", "s", "t">>, <<"S", "e", "p", "t", "e", "m", "b", "e", "r">>, <<"O", "c", "t", "o", "b", "e", "r">>, <<"N", "o", "v", "e", "m", "b", "e", "r">>, <<"D", "e", "c", "e", "m", "b", "e", "r">> >>

NoStamp(timestamp) == <<>>

IdValueSection(row) == <<row[1], row[2], row[4]>>

NoRtimeMonth ==
    \A fa \in FileNodes : ~HasEntry(NodeOf(fa), K_rtime_month)

C6_Expected(fa) ==
    <<IdentifierOf(NodeOf(fa)), MeasurementOf(NodeOf(fa)),
      SectionOfSegments(SegmentsOf(json_files[fa[1]].data, fa[2], FALSE, NoStamp))>>

ExampleDocument == Object(<< <<K_a, Played(PosInt(42), 7500)>> >>)

\* C6: in documents without any rtime_month key, the section of every record
\* is the dot-join of the segments its ancestor chain contributes (a key
\* contributes itself iff it is games, months or playtime_stats; an array
\* index i contributes month_i iff the path so far ends with months), or
\* "unknown" when there are none; {"a":{"appid":42,...7500}} yields exactly
\* ("42", 7500, "unknown").
C6_SectionFromAncestors ==
    (AllRowsCollected /\ NoRtimeMonth) =>
        /\ SameBag([i \in 1..Len(csv_rows) |-> IdValueSection(csv_rows[i])],
                   { fa \in FileNodes : Yields(NodeOf(fa)) }, C6_Expected)
        /\ (Len(json_files) = 1 /\ json_files[1].data = ExampleDocument) =>
               /\ Len(csv_rows) = 1
               /\ IdValueSection(csv_rows[1]) = << <<"4", "2">>, 7500, <<"u", "n", "k", "n", "o", "w", "n">> >>

\* a record under index 1 of a months array, beside one found under "games"
C6_Witness ==
    /\ AllRowsCollected /\ NoRtimeMonth /\ pc = "read"
    /\ \E i \in 1..Len(csv_rows) : csv_rows[i][4] = <<"p", "l", "a", "y", "t", "i", "m", "e", "_", "s", "t", "a", "t", "s", ".", "m", "o", "n", "t", "h", "s", ".", "m", "o", "n", "t", "h", "_", "1">>
    /\ \E i \in 1..Len(csv_rows) : csv_rows[i][4] = <<"p", "l", "a", "y", "t", "i", "m", "e", "_", "s", "t", "a", "t", "s", ".", "g", "a", "m", "e", "s">>

C9_Expected(fa) ==
    <<IdentifierOf(NodeOf(fa)), MeasurementOf(NodeOf(fa)),
      SectionOfSegments(SegmentsOf(json_files[fa[1]].data, fa[2], TRUE, StampOf))>>

\* the objects that hold a numeric rtime_month and are visited with a path
\* ending in a month_ placeholder, each with that path
C9_StampedObjects ==
    { fa \in FileNodes :
        LET node == NodeOf(fa)
            path == SegmentsOf(json_files[fa[1]].data, fa[2], FALSE, NoStamp)
        IN  /\ HasEntry(node, K_rtime_month)
            /\ EntryOf(node, K_rtime_month).t = "Number"
            /\ Len(path) > 0 /\ IsPrefix(S_month_, path[Len(path)]) }

\* C9 as claimed: an object that holds a numeric rtime_month and is visited
\* with a path ending in month_N passes to every one of its children the path
\* with month_N overwritten by the timestamp's YYYY-MM, so every record found
\* beneath it carries YYYY-MM in place of month_N.
C9_PlaceholderResolvedForChildren ==
    AllRowsCollected =>
        /\ \A fa \in C9_StampedObjects :
             LET node == NodeOf(fa)
                 path == SegmentsOf(json_files[fa[1]].data, fa[2], FALSE, NoStamp)
                 resolved == SubSeq(path, 1, Len(path) - 1)
                                 \o <<StampOf(EntryOf(node, K_rtime_month).n.v)>>
             IN  \A e \in Range(node.m) :
                     LET passed == new_path_for_key(node.m, e[1], path)
                     IN  /\ Len(passed) >= Len(path)
                         /\ SubSeq(passed, 1, Len(path)) = resolved
        /\ SameBag([i \in 1..Len(csv_rows) |-> IdValueSection(csv_rows[i])],
                   { fa \in FileNodes : Yields(NodeOf(fa)) }, C9_Expected)

\* the label of the record of a node: the month name of the timestamp of the
\* months element it lies in when that element holds one, else the
\* translation of the section its ancestors give
C1_Label(fa) ==
    LET doc == json_files[fa[1]].data
        addr == fa[2]
        element == NodeAt(doc, SubSeq(addr, 1, 3))
    IN  IF /\ Len(addr) >= 3
           /\ addr[1] = KeyStep(K_playtime_stats) /\ addr[2] = KeyStep(K_months)
           /\ addr[3].idx >= 0
           /\ HasEntry(element, K_rtime_month)
           /\ IsUnsigned(EntryOf(element, K_rtime_month))
        THEN MonthNames[CalendarMonthOf(EntryOf(element, K_rtime_month).n.v)]
        ELSE convert_section_to_month(
                 SectionOfSegments(SegmentsOf(doc, addr, FALSE, NoStamp)))

C1_Expected(fa) ==
    <<IdentifierOf(NodeOf(fa)), MeasurementOf(NodeOf(fa)), C1_Label(fa)>>

IdValueLabel(row) == <<row[1], row[2], convert_section_to_month(row[4])>>

\* C1 as claimed: a record found under playtime_stats -> months -> element i,
\* where element i holds a numeric rtime_month in calendar month M, is
\* labelled with the English name of M whatever i is.
C1_LabelFromTimestamp ==
    AllRowsCollected =>
        SameBag([i \in 1..Len(csv_rows) |-> IdValueLabel(csv_rows[i])],
                { fa \in FileNodes : Yields(NodeOf(fa)) }, C1_Expected)

\* the identifiers the two traversals are compared on
C10_CollectedIds ==
    UNION { extract_app_ids(json_files[i].data) :
                i \in { j \in 1..Len(json_files) : json_files[j].data.t # "Invalid" } }

\* the strings stored under 'appid' by the nodes that yield a record
C10_StringIdentifiers ==
    { EntryOf(NodeOf(fa), K_appid).s :
          fa \in { fb \in FileNodes :
                       Yields(NodeOf(fb)) /\ EntryOf(NodeOf(fb), K_appid).t = "String" } }

\* C10 (as amended): the identifier of every record of extract_playtime_data
\* is in the set extract_app_ids returns for the same documents, unless the
\* record comes from an object whose 'appid' is a string, which
\* extract_app_ids does not collect.
C10_JoinCompleteForNumbers ==
    AllRowsCollected =>
        \A i \in 1..Len(csv_rows) :
            \/ csv_rows[i][1] \in C10_CollectedIds
            \/ csv_rows[i][1] \in C10_StringIdentifiers

\* C10 as claimed: every record's identifier is in the set of extract_app_ids.
C10_JoinComplete ==
    AllRowsCollected =>
        \A i \in 1..Len(csv_rows) : csv_rows[i][1] \in C10_CollectedIds

\* records from a numeric and from a string 'appid' in one run, the first in
\* the collected set and the second not
C10_Witness ==
    /\ AllRowsCollected /\ pc = "read"
    /\ \E i \in 1..Len(csv_rows) : csv_rows[i][1] \in C10_CollectedIds
    /\ \E i \in 1..Len(csv_rows) :
           csv_rows[i][1] \notin C10_CollectedIds
               /\ csv_rows[i][1] \in C10_StringIdentifiers

\* a <= b in byte-wise lexicographic order
StrLeq(a, b) ==
    \/ IsPrefix(a, b)
    \/ \E i \in 1..Len(a) :
         /\ i <= Len(b)
         /\ SubSeq(a, 1, i - 1) = SubSeq(b, 1, i - 1)
         /\ Ord(a[i]) < Ord(b[i])

\* (year, app_id, raw section) of a <= that of b
KeyLeq(a, b) ==
    \/ a[3] # b[3] /\ StrLeq(a[3], b[3])
    \/ a[3] = b[3] /\ a[1] # b[1] /\ StrLeq(a[1], b[1])
    \/ a[3] = b[3] /\ a[1] = b[1] /\ StrLeq(a[4], b[4])

SortedByKey(rows) ==
    \A i \in 1..Len(rows), j \in 1..Len(rows) : i < j => KeyLeq(rows[i], rows[j])

IsPermutation(a, b) ==
    /\ Len(a) = Len(b)
    /\ \A i \in 1..Len(a) : Count(a, a[i]) = Count(b, a[i])

\* the lines of a text that ends every line with "\n"
LinesOf(text) ==
    LET pieces == split(text, "\n") IN SubSeq(pieces, 1, Len(pieces) - 1)

PlainLine(row) ==
    row[1] \o <<",">> \o to_string(row[2]) \o <<",">> \o row[3] \o <<",">>
        \o convert_section_to_month(row[4])

\* the step of convert_to_csv that sorts, renders and writes
C3_WriteStep ==
    /\ command = "to-csv" /\ pc = "read" /\ file_idx = Len(json_files)
    /\ pc' # "read"

\* C3: the rendered data rows are a permutation of the collected rows, in
\* non-decreasing order of (year, app_id, raw section) compared as strings,
\* whatever the order they were collected in; the label is translated per
\* row after the order is fixed; sorting a sorted list leaves it unchanged.
C3_SortedPermutation ==
    [][C3_WriteStep =>
          /\ IsPermutation(csv_rows, csv_rows')
          /\ SortedByKey(csv_rows')
          /\ SortedByKey(csv_rows) => csv_rows' = csv_rows
          /\ sort_rows(csv_rows') = csv_rows'
          /\ LET lines == LinesOf(csv_content')
             IN  /\ Len(lines) = Len(csv_rows') + 1
                 /\ \A i \in 1..Len(csv_rows') : lines[i + 1] = PlainLine(csv_rows'[i])
      ]_vars

RECURSIVE RowsInFileOrder(_)
RowsInFileOrder(n) ==
    IF n = 0 THEN <<>> ELSE RowsInFileOrder(n - 1) \o file_rows(json_files[n])

\* a written table of seven rows or more that the sort reordered, with two
\* rows of one key kept in the order they were collected in, the raw section
\* month_10 right before month_2, and identifier "10" before "9"
C3_Witness ==
    /\ command = "to-csv" /\ pc = "done" /\ Len(csv_rows) >= 7
    /\ csv_rows # RowsInFileOrder(Len(json_files))
    /\ \E i \in 1..(Len(csv_rows) - 1) :
         /\ csv_rows[i][4] = <<"p", "l", "a", "y", "t", "i", "m", "e", "_", "s", "t", "a", "t", "s", ".", "m", "o", "n", "t", "h", "s", ".", "m", "o", "n", "t", "h", "_", "0">>
         /\ csv_rows[i + 1][4] = <<"p", "l", "a", "y", "t", "i", "m", "e", "_", "s", "t", "a", "t", "s", ".", "m", "o", "n", "t", "h", "s", ".", "m", "o", "n", "t", "h", "_", "0">>
         /\ csv_rows[i][2] > csv_rows[i + 1][2]
    /\ \E i \in 1..(Len(csv_rows) - 1) :
         /\ csv_rows[i][4] = <<"p", "l", "a", "y", "t", "i", "m", "e", "_", "s", "t", "a", "t", "s", ".", "m", "o", "n", "t", "h", "s", ".", "m", "o", "n", "t", "h", "_", "1", "0">>
         /\ csv_rows[i + 1][4] = <<"p", "l", "a", "y", "t", "i", "m", "e", "_", "s", "t", "a", "t", "s", ".", "m", "o", "n", "t", "h", "s", ".", "m", "o", "n", "t", "h", "_", "2">>
    /\ \E i \in 1..(Len(csv_rows) - 1) :
         /\ csv_rows[i][1] = <<"1", "0">> /\ csv_rows[i + 1][1] = <<"9">>
         /\ csv_rows[i][3] = csv_rows[i + 1][3]

\* a CSV field as the quoting rule writes it
Quoted(field) ==
    IF \E i \in 1..Len(field) : field[i] \in {",", "\""}
    THEN <<"\"">> \o replace(field, <<"\"">>, <<"\"", "\"">>) \o <<"\"">>
    ELSE field

\* the fields of one CSV line: separated by commas; a field that opens with
\* a double quote runs to the closing one, a doubled quote inside standing
\* for one
RECURSIVE CsvFields(_, _, _)
CsvFields(rest, field, quoted) ==
    IF Len(rest) = 0 THEN <<field>>
    ELSE IF quoted THEN
        (IF rest[1] = "\"" THEN
            (IF Len(rest) > 1 /\ rest[2] = "\""
             THEN CsvFields(SubSeq(rest, 3, Len(rest)), Append(field, "\""), TRUE)
             ELSE CsvFields(Tail(rest), field, FALSE))
         ELSE CsvFields(Tail(rest), Append(field, rest[1]), TRUE))
    ELSE IF rest[1] = "," THEN <<field>> \o CsvFields(Tail(rest), <<>>, FALSE)
    ELSE IF rest[1] = "\"" /\ Len(field) = 0 THEN CsvFields(Tail(rest), field, TRUE)
    ELSE CsvFields(Tail(rest), Append(field, rest[1]), FALSE)

FieldsOfRow(row) ==
    <<row[1], to_string(row[2]), row[3], convert_section_to_month(row[4])>>

\* C7 as claimed: every field of a data row that holds a comma or a double
\* quote is written in double quotes with its quotes doubled, so every
\* rendered row parses back to its four fields.
C7_RowsParseBack ==
    (command = "to-csv" /\ pc = "done") =>
        LET lines == LinesOf(csv_content)
        IN  /\ Len(lines) = Len(csv_rows) + 1
            /\ lines[1] = <<"a", "p", "p", "_", "i", "d", ",", "p", "l", "a", "y", "t", "i", "m", "e", "_", "i", "n", "_", "s", "e", "c", "o", "n", "d", "s", ",", "y", "e", "a", "r", ",", "m", "o", "n", "t", "h">>
            /\ \A i \in 1..Len(csv_rows) :
                 LET fields == FieldsOfRow(csv_rows[i])
                 IN  /\ lines[i + 1] = Quoted(fields[1]) \o <<",">> \o Quoted(fields[2])
                            \o <<",">> \o Quoted(fields[3]) \o <<",">> \o Quoted(fields[4])
                     /\ CsvFields(lines[i + 1], <<>>, FALSE) = fields

\* the document with the entries of every object in reverse order
RECURSIVE ReverseKeys(_)
ReverseKeys(value) ==
    IF value.t = "Object"
    THEN Object([i \in 1..Len(value.m) |->
                    <<value.m[Len(value.m) + 1 - i][1],
                      ReverseKeys(value.m[Len(value.m) + 1 - i][2])>>])
    ELSE IF value.t = "Array"
    THEN Array([i \in 1..Len(value.a) |-> ReverseKeys(value.a[i])])
    ELSE value

\* the document with the first entry of every object moved to the end
RECURSIVE RotateKeys(_)
RotateKeys(value) ==
    IF value.t = "Object"
    THEN Object([i \in 1..Len(value.m) |->
                    <<value.m[(i % Len(value.m)) + 1][1],
                      RotateKeys(value.m[(i % Len(value.m)) + 1][2])>>])
    ELSE IF value.t = "Array"
    THEN Array([i \in 1..Len(value.a) |-> RotateKeys(value.a[i])])
    ELSE value

\* the decimal strings of the unsigned integers stored under 'appid' or
\* 'app_id' by any object of any file
C5_StoredIds ==
    { DecimalOf(EntryOf(NodeOf(fa[1]), fa[2]).n.v) :
          fa \in { fb \in FileNodes \X {K_appid, K_app_id} :
                       /\ HasEntry(NodeOf(fb[1]), fb[2])
                       /\ IsUnsigned(EntryOf(NodeOf(fb[1]), fb[2])) } }

AllIdsCollected ==
    command = "map-games" /\ pc # "read" /\ file_idx = Len(json_files)

\* C5: the set extract_app_ids returns is exactly the decimal strings of the
\* unsigned integers stored under 'appid' or 'app_id' in any object at any
\* depth, other identifier fields being skipped, and it is the same for the
\* document with the keys of every object reordered.
C5_IdsExactAndOrderFree ==
    AllIdsCollected =>
        /\ all_app_ids = C5_StoredIds
        /\ \A i \in 1..Len(json_files) :
             /\ extract_app_ids(ReverseKeys(json_files[i].data))
                    = extract_app_ids(json_files[i].data)
             /\ extract_app_ids(RotateKeys(json_files[i].data))
                    = extract_app_ids(json_files[i].data)
             /\ extract_app_ids(json_files[i].data) \subseteq all_app_ids

\* three identifiers from one document: one under 'app_id', one in an object
\* that holds another object with an 'appid', and that inner one
C5_Witness ==
    /\ AllIdsCollected /\ Len(json_files) = 1
    /\ all_app_ids = { <<"1", "0">>, <<"7">>, <<"4", "2">> }
    /\ \E fa \in FileNodes : Len(fa[2]) >= 3 /\ HasEntry(NodeOf(fa), K_appid)

FoundAt(i) == results[i].kind = "Ok" /\ is_some(results[i].name)

\* what holds of the enrichment loop in every state
C8_LoopState ==
    command = "map-games" =>
        /\ Len(results) = Len(fetched)
        /\ \A i \in 1..Len(fetched), j \in 1..Len(fetched) :
               fetched[i] = fetched[j] => i = j
        /\ Range(fetched) \subseteq all_app_ids
        /\ DOMAIN game_mapping = { fetched[i] : i \in { j \in 1..Len(fetched) : FoundAt(j) } }
        /\ \A i \in 1..Len(fetched) :
               FoundAt(i) => game_mapping[fetched[i]] = unwrap(results[i].name)
        /\ (pc \in {"done", "failed"} /\ file_idx = Len(json_files)) =>
               /\ Range(fetched) = all_app_ids
               /\ Len(LinesOf(csv_content)) = Cardinality(DOMAIN game_mapping) + 1

C8_EntriesKept ==
    \A k \in DOMAIN game_mapping :
        k \in DOMAIN game_mapping' /\ game_mapping'[k] = game_mapping[k]

\* C8: whatever the lookups return, the loop looks every collected identifier
\* up exactly once, goes on after a not-found or an error, reaches the step
\* that writes the mapping, and the table then holds exactly the identifiers
\* whose lookup returned a name; no entry is removed or overwritten.
C8_PartialEnrichment ==
    /\ []C8_LoopState
    /\ [][C8_EntriesKept]_vars
    /\ (pc = "fetch") ~> (pc \in {"done", "failed"})

\* the mapping written after three lookups: an error, a not-found and a name
C8_Witness ==
    /\ command = "map-games" /\ pc = "done" /\ Len(fetched) = 3
    /\ \E i \in 1..3 : results[i].kind = "Err"
    /\ \E i \in 1..3 : results[i].kind = "Ok" /\ ~is_some(results[i].name)
    /\ Cardinality(DOMAIN game_mapping) = 1

\* the value of a numeral of at most two digits
SmallNumber(numeral) ==
    IF Len(numeral) = 1 THEN DigitValue(numeral[1])
    ELSE 10 * DigitValue(numeral[1]) + DigitValue(numeral[2])

RECURSIVE WithoutLeadingZeros(_)
WithoutLeadingZeros(numeral) ==
    IF Len(numeral) > 1 /\ numeral[1] = "0" THEN WithoutLeadingZeros(Tail(numeral))
    ELSE numeral

IsNumeral(s) == Len(s) > 0 /\ \A i \in 1..Len(s) : s[i] \in Range(Digits)

\* the label of playtime_stats.months.month_<numeral>
LabelOfIndex(numeral) ==
    LET n == WithoutLeadingZeros(numeral)
    IN  IF Len(n) <= 2 /\ SmallNumber(n) < 12 THEN MonthNames[SmallNumber(n) + 1]
        ELSE <<"m", "o", "n", "t", "h", "_">> \o n

\* a numeral without leading zeros is at most usize::MAX (2^64 - 1)
AtMostUsizeMax(n) ==
    \/ Len(n) < 20
    \/ Len(n) = 20 /\ StrLeq(n, <<"1", "8", "4", "4", "6", "7", "4", "4", "0", "7", "3", "7", "0", "9", "5", "5", "1", "6", "1", "5">>)

MonthPrefix == <<"p", "l", "a", "y", "t", "i", "m", "e", "_", "s", "t", "a", "t", "s", ".", "m", "o", "n", "t", "h", "s", ".", "m", "o", "n", "t", "h", "_">>

SuffixOf(s) == SubSeq(s, Len(MonthPrefix) + 1, Len(s))

Unsigned(s) == IF Len(s) > 0 /\ s[1] = "+" THEN Tail(s) ELSE s

\* C4 (as amended): 'playtime_stats.games' gives 'total'; the month prefix
\* followed by what parse::<usize> accepts (an optional '+', then decimal
\* digits of a value N <= usize::MAX) gives the N-th month name for N < 12
\* and 'month_N' for N >= 12; every other string comes back unchanged.
C4_TranslatorCases ==
    (command = "translate" /\ pc = "done") =>
        label = IF section = <<"p", "l", "a", "y", "t", "i", "m", "e", "_", "s", "t", "a", "t", "s", ".", "g", "a", "m", "e", "s">> THEN <<"t", "o", "t", "a", "l">>
                ELSE IF /\ IsPrefix(MonthPrefix, section)
                        /\ IsNumeral(Unsigned(SuffixOf(section)))
                        /\ AtMostUsizeMax(WithoutLeadingZeros(Unsigned(SuffixOf(section))))
                THEN LabelOfIndex(Unsigned(SuffixOf(section)))
                ELSE section

\* C4 as claimed: the month prefix followed by any non-negative integer N
\* gives the month name or 'month_N'; every other string comes back unchanged.
C4_AnyInteger ==
    (command = "translate" /\ pc = "done") =>
        label = IF section = <<"p", "l", "a", "y", "t", "i", "m", "e", "_", "s", "t", "a", "t", "s", ".", "g", "a", "m", "e", "s">> THEN <<"t", "o", "t", "a", "l">>
                ELSE IF IsPrefix(MonthPrefix, section) /\ IsNumeral(SuffixOf(section))
                THEN LabelOfIndex(SuffixOf(section))
                ELSE section

\* the fallback for the index 99
C4_Witness ==
    /\ command = "translate" /\ pc = "done"
    /\ section = <<"p", "l", "a", "y", "t", "i", "m", "e", "_", "s", "t", "a", "t", "s", ".", "m", "o", "n", "t", "h", "s", ".", "m", "o", "n", "t", "h", "_", "9", "9">>
    /\ label = <<"m", "o", "n", "t", "h", "_", "9", "9">>

=============================================================================
